---- MODULE Spec2Model ----
(***************************************************************************)
(* OneBot V11 adapter (nonebot/adapters/onebot/v11/adapter.py): the three   *)
(* transports (HTTP webhook, passive WebSocket, forward WebSocket loop),    *)
(* the authentication checks, the payload decoder and the bot registry.     *)
(***************************************************************************)
EXTENDS Integers, Sequences, FiniteSets, TLC

\* ------------------------------------------------------------------ bounds
NumWs == 2        \* passive WebSocket connections that may arrive
NumFwd == 2       \* configured forward URLs, at most
MaxLog == 2       \* payloads that leave a trace (dispatched or stored)
MaxFails == 2     \* consecutive failures of opening one forward socket
MaxFrames == 3    \* receive() outcomes kept on record per connection

WsConns == 1..NumWs

\* ------------------------------------------------------------ basic values
\* Python's None, for optional strings and optional objects.
NoneV == "None"

\* Truthiness of an Optional[str]: None and "" are falsy.
Truthy(x) == x # NoneV /\ x # ""

\* Identities carried by events (Event.self_id is an int).
SelfIds == {7, 42}

Digit == <<"0", "1", "2", "3", "4", "5", "6", "7", "8", "9">>

RECURSIVE ToStr(_)
\* str(n) for a non-negative int, digit by digit.
ToStr(n) == IF n < 10 THEN Digit[n + 1]
            ELSE ToStr(n \div 10) \o Digit[(n % 10) + 1]

\* Values of the X-Self-ID header (absent, empty, or an identity).
HdrIds == {NoneV, "", "7", "42"}

\* --------------------------------------------------------------- JSON texts
\* The frames and bodies the peers send, as JSON texts.
TxtBad == "{\"post_type\": "
TxtList == "[1, 2]"
TxtResult == "{\"status\": \"ok\", \"retcode\": 0, \"echo\": \"1\"}"
TxtResultSid == "{\"status\": \"failed\", \"self_id\": 7}"
TxtNoSid == "{\"post_type\": \"notice\", \"time\": 1}"
TxtMsg == "{\"post_type\": \"message\", \"message_type\": \"private\", \"sub_type\": \"friend\", \"time\": 1, \"self_id\": 7, \"user_id\": 5, \"message_id\": 1, \"message\": \"hi\", \"raw_message\": \"hi\", \"font\": 0, \"sender\": {\"nickname\": \"n\"}}"
TxtEnable == "{\"post_type\": \"meta_event\", \"meta_event_type\": \"lifecycle\", \"sub_type\": \"enable\", \"time\": 1, \"self_id\": 7}"
TxtConnect7 == "{\"post_type\": \"meta_event\", \"meta_event_type\": \"lifecycle\", \"sub_type\": \"connect\", \"time\": 1, \"self_id\": 7}"
TxtConnect42 == "{\"post_type\": \"meta_event\", \"meta_event_type\": \"lifecycle\", \"sub_type\": \"connect\", \"time\": 1, \"self_id\": 42}"

\* Further events, for the decode cascade: a group message without
\* group_id, a private message without user_id and the message itself, an unknown post_type, a heartbeat, a private message with an
\* empty sub_type, and a lifecycle event without sub_type.
TxtGroup == "{\"post_type\": \"message\", \"message_type\": \"group\", \"sub_type\": \"normal\", \"time\": 1, \"self_id\": 7, \"user_id\": 5, \"message_id\": 1, \"message\": \"hi\", \"raw_message\": \"hi\", \"font\": 0, \"sender\": {\"nickname\": \"n\"}}"
TxtPrivNoUser == "{\"post_type\": \"message\", \"message_type\": \"private\", \"sub_type\": \"friend\", \"time\": 1, \"self_id\": 7}"
TxtUnknown == "{\"post_type\": \"foo\", \"time\": 1, \"self_id\": 7}"
TxtHeartbeat == "{\"post_type\": \"meta_event\", \"meta_event_type\": \"heartbeat\", \"time\": 1, \"self_id\": 7}"
TxtEmptySub == "{\"post_type\": \"message\", \"message_type\": \"private\", \"sub_type\": \"\", \"time\": 1, \"self_id\": 7, \"user_id\": 5, \"message_id\": 1, \"message\": \"hi\", \"raw_message\": \"hi\", \"font\": 0, \"sender\": {\"nickname\": \"n\"}}"
TxtLifeNoSub == "{\"post_type\": \"meta_event\", \"meta_event_type\": \"lifecycle\", \"time\": 1, \"self_id\": 7}"

\* The events that no registered class accepts, only Event itself.
FallbackTexts == {TxtPrivNoUser, TxtUnknown}

CascadeTexts == {TxtGroup, TxtPrivNoUser, TxtUnknown, TxtHeartbeat,
                 TxtEmptySub, TxtLifeNoSub}

Texts == {TxtBad, TxtList, TxtResult, TxtResultSid, TxtNoSid, TxtMsg,
          TxtEnable, TxtConnect7, TxtConnect42}

\* A parsed JSON value: an object (dict) with its fields, or an array.
JObject(f) == [kind |-> "object", fields |-> f]
JArray(s) == [kind |-> "array", items |-> s]

\* json.loads raises on a malformed text.
JsonError == [kind |-> "JSONDecodeError"]

\* json.loads(data): the parsed value, or JsonError when it raises.
json_loads(data) ==
    CASE data = TxtList -> JArray(<<1, 2>>)
      [] data = TxtResult -> JObject([status |-> "ok", retcode |-> 0, echo |-> "1"])
      [] data = TxtResultSid -> JObject([status |-> "failed", self_id |-> 7])
      [] data = TxtNoSid -> JObject([post_type |-> "notice", time |-> 1])
      [] data = TxtMsg ->
            JObject([post_type |-> "message", message_type |-> "private",
                     sub_type |-> "friend", time |-> 1, self_id |-> 7,
                     user_id |-> 5, message_id |-> 1, message |-> "hi",
                     raw_message |-> "hi", font |-> 0,
                     sender |-> [nickname |-> "n"]])
      [] data = TxtEnable ->
            JObject([post_type |-> "meta_event", meta_event_type |-> "lifecycle",
                     sub_type |-> "enable", time |-> 1, self_id |-> 7])
      [] data = TxtConnect7 ->
            JObject([post_type |-> "meta_event", meta_event_type |-> "lifecycle",
                     sub_type |-> "connect", time |-> 1, self_id |-> 7])
      [] data = TxtConnect42 ->
            JObject([post_type |-> "meta_event", meta_event_type |-> "lifecycle",
                     sub_type |-> "connect", time |-> 1, self_id |-> 42])
      [] data = TxtGroup ->
            JObject([post_type |-> "message", message_type |-> "group",
                     sub_type |-> "normal", time |-> 1, self_id |-> 7,
                     user_id |-> 5, message_id |-> 1, message |-> "hi",
                     raw_message |-> "hi", font |-> 0,
                     sender |-> [nickname |-> "n"]])
      [] data = TxtPrivNoUser ->
            JObject([post_type |-> "message", message_type |-> "private",
                     sub_type |-> "friend", time |-> 1, self_id |-> 7])
      [] data = TxtUnknown ->
            JObject([post_type |-> "foo", time |-> 1, self_id |-> 7])
      [] data = TxtHeartbeat ->
            JObject([post_type |-> "meta_event", meta_event_type |-> "heartbeat",
                     time |-> 1, self_id |-> 7])
      [] data = TxtEmptySub ->
            JObject([post_type |-> "message", message_type |-> "private",
                     sub_type |-> "", time |-> 1, self_id |-> 7,
                     user_id |-> 5, message_id |-> 1, message |-> "hi",
                     raw_message |-> "hi", font |-> 0,
                     sender |-> [nickname |-> "n"]])
      [] data = TxtLifeNoSub ->
            JObject([post_type |-> "meta_event", meta_event_type |-> "lifecycle",
                     time |-> 1, self_id |-> 7])
      [] OTHER -> JsonError

\* dict.get(key): the value, or None when the key is absent.
Get(f, key) == IF key \in DOMAIN f THEN f[key] ELSE NoneV

\* ------------------------------------------------------------ event models
\* The event classes and what each one's parse_obj demands of the object:
\* the fields it requires and the literal values it pins.
Models ==
    [Event |-> [required |-> {"time", "self_id", "post_type"},
                literals |-> <<>>],
     MessageEvent |-> [required |-> {"time", "self_id", "post_type",
                                     "message_type", "sub_type", "user_id",
                                     "message_id", "message", "raw_message",
                                     "font", "sender"},
                       literals |-> <<<<"post_type", "message">>>>],
     PrivateMessageEvent |-> [required |-> {"time", "self_id", "post_type",
                                            "message_type", "sub_type",
                                            "user_id", "message_id", "message",
                                            "raw_message", "font", "sender"},
                              literals |-> <<<<"post_type", "message">>,
                                             <<"message_type", "private">>>>],
     GroupMessageEvent |-> [required |-> {"time", "self_id", "post_type",
                                          "message_type", "sub_type",
                                          "user_id", "message_id", "message",
                                          "raw_message", "font", "sender",
                                          "group_id"},
                            literals |-> <<<<"post_type", "message">>,
                                           <<"message_type", "group">>>>],
     MetaEvent |-> [required |-> {"time", "self_id", "post_type",
                                  "meta_event_type"},
                    literals |-> <<<<"post_type", "meta_event">>>>],
     LifecycleMetaEvent |-> [required |-> {"time", "self_id", "post_type",
                                           "meta_event_type", "sub_type"},
                             literals |-> <<<<"post_type", "meta_event">>,
                                            <<"meta_event_type", "lifecycle">>>>]]

\* The taxonomy registry: event name -> event class.
EventNames ==
    [k \in {"message", "message.private", "message.group", "meta_event",
             "meta_event.lifecycle"} |->
        CASE k = "message" -> "MessageEvent"
          [] k = "message.private" -> "PrivateMessageEvent"
          [] k = "message.group" -> "GroupMessageEvent"
          [] k = "meta_event" -> "MetaEvent"
          [] k = "meta_event.lifecycle" -> "LifecycleMetaEvent"]

\* model.parse_obj(fields) succeeds.
Accepts(model, f) ==
    /\ Models[model].required \subseteq DOMAIN f
    /\ \A i \in DOMAIN Models[model].literals :
          f[Models[model].literals[i][1]] = Models[model].literals[i][2]

\* The parsed event object, and the None json_to_event returns otherwise.
ParsedEvent(model, f) == [model |-> model, data |-> f]
NoEvent == [model |-> NoneV, data |-> <<>>]

\* The classes registered for the prefixes of event_name, most specific
\* first (event_name is post_type + detail_type + sub_type, each of the
\* latter two with its leading dot, or empty).
get_event_model(post_type, detail_type, sub_type) ==
    LET k3 == post_type \o detail_type \o sub_type
        k2 == post_type \o detail_type
        k1 == post_type
        Look(k) == IF k \in DOMAIN EventNames THEN <<EventNames[k]>> ELSE <<>>
    IN  (IF k3 # k2 THEN Look(k3) ELSE <<>>)
        \o (IF k2 # k1 THEN Look(k2) ELSE <<>>)
        \o Look(k1)

RECURSIVE FirstAccepting_no_fallback(_, _)
\* A cascade without the final attempt with Event itself.
FirstAccepting_no_fallback(models, f) ==
    IF models = <<>> THEN NoEvent
    ELSE IF Accepts(Head(models), f) THEN ParsedEvent(Head(models), f)
         ELSE FirstAccepting_no_fallback(Tail(models), f)

RECURSIVE FirstAccepting(_, _)
\* The for/else of json_to_event: the first model that parses the object,
\* and Event itself when none of them does; None when Event fails too.
FirstAccepting(models, f) ==
    IF models = <<>>
    THEN IF Accepts("Event", f) THEN ParsedEvent("Event", f) ELSE NoEvent
    ELSE IF Accepts(Head(models), f) THEN ParsedEvent(Head(models), f)
         ELSE FirstAccepting(Tail(models), f)

\* The event json_to_event returns (NoEvent when it returns None).
json_to_event(json_data) ==
    IF json_data.kind # "object" THEN NoEvent
    ELSE IF "post_type" \notin DOMAIN json_data.fields THEN NoEvent
    ELSE LET f == json_data.fields
             post_type == f["post_type"]
             dt == Get(f, post_type \o "_type")
             detail_type == IF Truthy(dt) THEN "." \o dt ELSE ""
             st == Get(f, "sub_type")
             sub_type == IF Truthy(st) THEN "." \o st ELSE ""
         IN  FirstAccepting(get_event_model(post_type, detail_type, sub_type), f)

\* A decoder that does not look whether the value is a dict.
add_result_any_value(json_data) ==
    IF json_data.kind = "object" /\ "post_type" \in DOMAIN json_data.fields
    THEN <<>>
    ELSE <<json_data>>

\* What json_to_event hands to ResultStore.add_result: the object itself
\* when it is a dict without post_type, nothing otherwise.
add_result(json_data) ==
    IF json_data.kind = "object" /\ "post_type" \notin DOMAIN json_data.fields
    THEN <<json_data>>
    ELSE <<>>

\* ------------------------------------------------------------- configuration
\* Config.secret and Config.access_token (Optional[str]).
Secrets == {NoneV, "s1"}
AccessTokens == {NoneV, "tok"}

\* ------------------------------------------------------------------ requests
\* Values of the Authorization header.
AuthHdrs == {NoneV, "Bearer tok", "Bearer wrong", "Basic tok"}

\* Entries of Config.ws_urls: URL() raises on the last one.
GoodUrls == {"ws://h1/", "ws://h2/"}
BadUrl == "ws://["

\* URL(url) returns (does not raise).
URL_ok(url) == url # BadUrl


\* str.partition(" ") of an Authorization header: <<scheme, param>>.
Partition(h) ==
    CASE h = "Bearer tok" -> <<"Bearer", "tok">>
      [] h = "Bearer wrong" -> <<"Bearer", "wrong">>
      [] h = "Basic tok" -> <<"Basic", "tok">>

\* str.lower() of a scheme.
Lower(s) == CASE s = "Bearer" -> "bearer" [] s = "Basic" -> "basic"

\* get_auth_bearer: the token of a bearer/token Authorization header.
get_auth_bearer(h) ==
    IF ~Truthy(h) THEN NoneV
    ELSE IF Lower(Partition(h)[1]) \notin {"bearer", "token"} THEN NoneV
    ELSE Partition(h)[2]

\* hmac.new(secret, body, "sha1").hexdigest(): a digest that depends on
\* the key and on every byte of the body.
hexdigest(secret, body) == "hmac-sha1[" \o secret \o "][" \o body \o "]"

\* Values of the X-Signature header sent with a body: absent, the
\* signature of the body under the shared secret, that signature without
\* its prefix, the signature of another body, and one under another key.
SigHdrs(body) ==
    {NoneV,
     "sha1=" \o hexdigest("s1", body),
     hexdigest("s1", body),
     "sha1=" \o hexdigest("s1", "{}"),
     "sha1=" \o hexdigest("s2", body)}

\* Request.content: None or a body.
Contents == {NoneV, TxtBad, TxtList, TxtResult, TxtNoSid, TxtMsg, TxtConnect42}

Requests ==
    UNION {[self_id : HdrIds, x_signature : SigHdrs(IF c = NoneV THEN "" ELSE c),
            authorization : AuthHdrs, content : {c}] : c \in Contents}

\* Response(status, content=...); NoResponse is the None a check returns
\* when it passes (status 0: no response), Raised an exception leaving the
\* handler instead of a response.
Response(status, content) == [status |-> status, content |-> content]
NoResponse == Response(0, NoneV)
Raised(e) == Response(0, e)

\* Adapter._check_signature: the rejecting response, or None.
check_signature(cfg, request) ==
    IF ~Truthy(cfg.secret) THEN NoResponse
    ELSE IF ~Truthy(request.x_signature) THEN Response(401, "Missing Signature")
    ELSE IF request.content = NoneV THEN Response(400, "Missing Content")
    ELSE IF request.x_signature # "sha1=" \o hexdigest(cfg.secret, request.content)
         THEN Response(403, "Signature is invalid")
    ELSE NoResponse

\* Adapter._check_access_token: the rejecting response, or None.
check_access_token(cfg, authorization) ==
    LET token == get_auth_bearer(authorization)
    IN  IF Truthy(cfg.access_token) /\ cfg.access_token # token
        THEN Response(403, IF Truthy(token)
                           THEN "Authorization Header is invalid"
                           ELSE "Missing Authorization Header")
        ELSE NoResponse

\* ---------------------------------------------------------------------- bots
\* A Bot object: its identity and the handler that created it.
Bot(self_id, conn) == [self_id |-> self_id, conn |-> conn]
NoBot == [self_id |-> NoneV, conn |-> <<"none", 0>>]
HttpConn == <<"http", 0>>
WsConn(c) == <<"ws", c>>
FwdConn(u) == <<"fwd", u>>

\* The registry's connect(identity, handle) -> Session | AlreadyExists, an
\* atomic check-then-insert: the bot is inserted when its identity is
\* free; when the identity is held the registry is left as it is
\* (AlreadyExists). The adapter's three callers ignore what it returns and
\* go on with the Bot they have built.
bot_connect(b, bot) ==
    IF bot.self_id \in DOMAIN b THEN b
    ELSE [k \in DOMAIN b \cup {bot.self_id} |->
             IF k = bot.self_id THEN bot ELSE b[k]]

\* BaseAdapter.bot_disconnect: self.bots.pop(bot.self_id, None).
bot_disconnect(b, bot) ==
    [k \in DOMAIN b \ {bot.self_id} |-> b[k]]

\* bot.handle_event(event) spawned as a task by handler `by`.
Dispatch(by, bot, event) == [by |-> by, bot |-> bot, event |-> event]

\* --------------------------------------------------------------------- state
VARIABLES
    config,      \* onebot_config: secret, access_token, ws_urls
    bots,        \* Adapter.bots: identity -> Bot
    ws,          \* the _handle_ws call of each passive connection
    fwd,         \* the _forward_ws loop of each configured URL
    httpResp,    \* what the last _handle_http call returned
    ntasks,      \* how many handle_event tasks have been created
    nresults,    \* how many payloads ResultStore.add_result was given
    log          \* the event loop under observation: what each receive
                 \* loop was given by receive(), the tasks created, in
                 \* creation order, and the tasks that have completed

vars == <<config, bots, ws, fwd, httpResp, ntasks, nresults, log>>

RECONNECT_INTERVAL == 3

\* websocket.close(code, reason); NoClose: close was not called (or raised).
CloseInfo(code, reason) == [code |-> code, reason |-> reason]
NoClose == CloseInfo(0, NoneV)

\* A passive connection whose handler has not started.
WsIdle ==
    [pc |-> "idle", self_id |-> NoneV, accepted |-> FALSE, close |-> NoClose,
     bot |-> NoBot, closes |-> 0, disconnects |-> 0]

\* A handler that has returned (or that an exception has left): what it
\* read from the handshake and what it did to the socket stay on record.
Returned(w) == [w EXCEPT !.pc = "closed", !.bot = NoBot]

\* A forward URL before start_forward has run.
FwdInit ==
    [pc |-> "init", bot |-> NoBot, attempts |-> 0, fails |-> 0, sleeps |-> 0,
     timer |-> 0]

\* ws.receive() raised instead of returning a frame.
RecvError == "<receive raised>"

\* The connections that run a receive loop.
LoopConns == {WsConn(c) : c \in WsConns} \cup {FwdConn(u) : u \in 1..NumFwd}

\* The record before anything has run; `on` tells whether this run of
\* the adapter is observed (the record is kept) or not (it stays empty).
NoLog(on) ==
    [on |-> on, rx |-> [conn \in LoopConns |-> <<>>], tasks |-> <<>>,
     done |-> <<>>]

\* A scheduler that runs the newest task first: the task goes in front.
create_task_front(tasks, d) == d \o tasks

\* asyncio.create_task: the new task goes behind the tasks created before.
create_task(tasks, d) == tasks \o d

\* The record after a handler has created the tasks d.
Spawned(l, d) ==
    IF l.on THEN [l EXCEPT !.tasks = create_task(@, d)] ELSE l

\* The record after the loop of conn was given `got` by receive() (a
\* frame, or RecvError) and created the tasks d in that turn.
Received(l, conn, got, d) ==
    IF l.on THEN Spawned([l EXCEPT !.rx[conn] = Append(@, got)], d) ELSE l

\* An observed loop is followed for MaxFrames turns.
CanReceive(conn) == log.on => Len(log.rx[conn]) < MaxFrames

\* The trace budget: payloads that leave a trace are bounded.
Room(n) == ntasks + nresults + n <= MaxLog

\* The adapter after __init__, for a configuration drawn from the given
\* secrets, tokens and ws_urls lists.
InitWith(secrets, tokens, urlLists) ==
    /\ config \in [secret : secrets, access_token : tokens, ws_urls : urlLists]
    /\ bots = [k \in {} |-> NoBot]
    /\ ws = [c \in WsConns |-> WsIdle]
    /\ fwd = [u \in DOMAIN config.ws_urls |-> FwdInit]
    /\ httpResp = NoResponse
    /\ ntasks = 0
    /\ nresults = 0
    /\ log = NoLog(FALSE)

\* ---------------------------------------------------------------------- HTTP
\* What one _handle_http call does: its response (or the exception that
\* leaves it), the registry after it, the tasks it creates and the
\* payloads it stores.
HttpOut(r, b, d, res) ==
    [response |-> r, bots |-> b, dispatched |-> d, results |-> res]

\* The checks at the top of _handle_http, in order: the first rejecting
\* response, or None when all of them pass.
auth_guard(cfg, request) ==
    IF ~Truthy(request.self_id)
    THEN Response(400, "Missing X-Self-ID Header")
    ELSE IF check_signature(cfg, request) # NoResponse
    THEN check_signature(cfg, request)
    ELSE check_access_token(cfg, request.authorization)

\* A body handler that registers a new Bot for every event.
http_process_always_new(b, self_id, content) ==
    IF content = NoneV THEN HttpOut(Response(204, NoneV), b, <<>>, <<>>)
    ELSE LET json_data == json_loads(content)
         IN  IF json_data = JsonError
             THEN HttpOut(Raised("JSONDecodeError"), b, <<>>, <<>>)
             ELSE LET event == json_to_event(json_data)
                      bot == Bot(self_id, HttpConn)
                  IN  IF event # NoEvent
                      THEN HttpOut(Response(204, NoneV),
                                   [k \in DOMAIN b \cup {self_id} |->
                                       IF k = self_id THEN bot ELSE b[k]],
                                   <<Dispatch(HttpConn, bot, event)>>,
                                   add_result(json_data))
                      ELSE HttpOut(Response(204, NoneV), b, <<>>,
                                   add_result(json_data))

\* A body handler whose bot lives only as long as the request.
http_process_per_request(b, self_id, content) ==
    IF content = NoneV THEN HttpOut(Response(204, NoneV), b, <<>>, <<>>)
    ELSE LET json_data == json_loads(content)
         IN  IF json_data = JsonError
             THEN HttpOut(Raised("JSONDecodeError"), b, <<>>, <<>>)
             ELSE LET event == json_to_event(json_data)
                      known == self_id \in DOMAIN b
                      bot == IF known THEN b[self_id]
                             ELSE Bot(self_id, HttpConn)
                  IN  IF event # NoEvent
                      THEN HttpOut(Response(204, NoneV),
                                   bot_disconnect(b, bot),
                                   <<Dispatch(HttpConn, bot, event)>>,
                                   add_result(json_data))
                      ELSE HttpOut(Response(204, NoneV), b, <<>>,
                                   add_result(json_data))

\* The rest of _handle_http, once the checks have passed: decode the
\* body, get or create the Bot of self_id, create the task, reply 204.
http_process(b, self_id, content) ==
    IF content = NoneV THEN HttpOut(Response(204, NoneV), b, <<>>, <<>>)
    ELSE LET json_data == json_loads(content)
         IN  IF json_data = JsonError
             THEN HttpOut(Raised("JSONDecodeError"), b, <<>>, <<>>)
             ELSE LET event == json_to_event(json_data)
                      known == self_id \in DOMAIN b
                      bot == IF known THEN b[self_id]
                             ELSE Bot(self_id, HttpConn)
                  IN  IF event # NoEvent
                      THEN HttpOut(Response(204, NoneV),
                                   IF known THEN b ELSE bot_connect(b, bot),
                                   <<Dispatch(HttpConn, bot, event)>>,
                                   add_result(json_data))
                      ELSE HttpOut(Response(204, NoneV), b, <<>>,
                                   add_result(json_data))

\* A handler that decodes the body before it looks at the credentials.
handle_http_late_guard(cfg, b, request) ==
    LET r == auth_guard(cfg, request)
        o == http_process(b, request.self_id, request.content)
    IN  IF ~Truthy(request.self_id) THEN HttpOut(r, b, <<>>, <<>>)
        ELSE IF r # NoResponse THEN [o EXCEPT !.response = r]
        ELSE o

handle_http(cfg, b, request) ==
    LET r == auth_guard(cfg, request)
    IN  IF r # NoResponse THEN HttpOut(r, b, <<>>, <<>>)
        ELSE http_process(b, request.self_id, request.content)

HttpRequest(request) ==
    \E o \in {handle_http(config, bots, request)} :
        /\ Room(Len(o.dispatched) + Len(o.results))
        /\ httpResp' = o.response
        /\ bots' = o.bots
        /\ ntasks' = ntasks + Len(o.dispatched)
        /\ nresults' = nresults + Len(o.results)
        /\ log' = Spawned(log, o.dispatched)
        /\ UNCHANGED <<config, ws, fwd>>

\* --------------------------------------------------------- passive WebSocket
\* The handshake checks without the duplicate-identity check.
ws_check_nodup(cfg, b, self_id, authorization) ==
    IF ~Truthy(self_id) THEN "Missing X-Self-ID Header"
    ELSE IF check_access_token(cfg, authorization) # NoResponse
         THEN check_access_token(cfg, authorization).content
    ELSE NoneV

\* The handshake checks of _handle_ws: the reason the socket is closed
\* with 1008 for, or None when the handshake passes.
ws_check(cfg, b, self_id, authorization) ==
    IF ~Truthy(self_id) THEN "Missing X-Self-ID Header"
    ELSE IF self_id \in DOMAIN b THEN "Duplicate X-Self-ID"
    ELSE IF check_access_token(cfg, authorization) # NoResponse
         THEN check_access_token(cfg, authorization).content
    ELSE NoneV

\* The handler starts: header checks, then close(1008) or await accept().
WsHandshake(c, self_id, authorization) ==
    \E reason \in {ws_check(config, bots, self_id, authorization)} :
        /\ ws[c].pc = "idle"
        /\ ws' = [ws EXCEPT ![c] =
                    IF reason # NoneV
                    THEN Returned([@ EXCEPT !.self_id = self_id,
                                            !.close = CloseInfo(1008, reason)])
                    ELSE [@ EXCEPT !.pc = "accepting", !.self_id = self_id]]
        /\ UNCHANGED <<config, log, bots, fwd, httpResp, ntasks, nresults>>

\* accept() returns: the Bot is created and registered.
WsAccept(c) ==
    LET bot == Bot(ws[c].self_id, WsConn(c))
    IN  /\ ws[c].pc = "accepting"
        /\ ws' = [ws EXCEPT ![c] = [@ EXCEPT !.pc = "receiving",
                                             !.accepted = TRUE, !.bot = bot]]
        /\ bots' = bot_connect(bots, bot)
        /\ UNCHANGED <<config, log, fwd, httpResp, ntasks, nresults>>

\* accept() raises: the exception leaves the handler.
WsAcceptFail(c) ==
    /\ ws[c].pc = "accepting"
    /\ ws' = [ws EXCEPT ![c] = Returned(@)]
    /\ UNCHANGED <<config, log, bots, fwd, httpResp, ntasks, nresults>>

\* One turn of the receive loop on frame `data`: the handler's next
\* position, the tasks created and the payloads stored.
WsOut(pc, d, res) == [pc |-> pc, dispatched |-> d, results |-> res]

\* A receive loop that an undecodable event ends, like a malformed frame.
ws_on_frame_strict(bot, c, data) ==
    LET json_data == json_loads(data)
    IN  IF json_data = JsonError THEN WsOut("closing", <<>>, <<>>)
        ELSE LET event == json_to_event(json_data)
             IN  IF event = NoEvent /\ add_result(json_data) = <<>>
                     /\ json_data.kind = "object"
                 THEN WsOut("closing", <<>>, <<>>)
                 ELSE WsOut("receiving",
                            IF event # NoEvent
                            THEN <<Dispatch(WsConn(c), bot, event)>> ELSE <<>>,
                            add_result(json_data))

ws_on_frame(bot, c, data) ==
    LET json_data == json_loads(data)
    IN  IF json_data = JsonError THEN WsOut("closing", <<>>, <<>>)
        ELSE LET event == json_to_event(json_data)
             IN  WsOut("receiving",
                       IF event # NoEvent
                       THEN <<Dispatch(WsConn(c), bot, event)>> ELSE <<>>,
                       add_result(json_data))

WsReceive(c, data) ==
    \E o \in {ws_on_frame(ws[c].bot, c, data)} :
        /\ ws[c].pc = "receiving"
        /\ Room(Len(o.dispatched) + Len(o.results))
        /\ CanReceive(WsConn(c))
        /\ ws' = [ws EXCEPT ![c] = [@ EXCEPT !.pc = o.pc]]
        /\ ntasks' = ntasks + Len(o.dispatched)
        /\ nresults' = nresults + Len(o.results)
        /\ log' = Received(log, WsConn(c), data, o.dispatched)
        /\ UNCHANGED <<config, bots, fwd, httpResp>>

\* receive() raises (the peer went away).
WsReceiveError(c) ==
    /\ ws[c].pc = "receiving"
    /\ CanReceive(WsConn(c))
    /\ ws' = [ws EXCEPT ![c] = [@ EXCEPT !.pc = "closing"]]
    /\ log' = Received(log, WsConn(c), RecvError, <<>>)
    /\ UNCHANGED <<config, bots, fwd, httpResp, ntasks, nresults>>

\* A teardown that a failing close() cuts short before bot_disconnect.
ws_finally_unless_raised(w, raised) ==
    Returned([w EXCEPT !.closes = @ + 1,
                       !.disconnects = IF raised THEN @ ELSE @ + 1])

\* The finally block once close() has returned or raised (a raise is
\* swallowed): the session is unregistered and the handler returns.
ws_finally(w, raised) ==
    Returned([w EXCEPT !.closes = @ + 1, !.disconnects = @ + 1])

WsFinally(c, raised) ==
    /\ ws[c].pc = "closing"
    /\ ws' = [ws EXCEPT ![c] = ws_finally(@, raised)]
    /\ bots' = bot_disconnect(bots, ws[c].bot)
    /\ UNCHANGED <<config, log, fwd, httpResp, ntasks, nresults>>

\* --------------------------------------------------------- forward WebSocket
\* The headers of the request _forward_ws builds once.
forward_headers(cfg) ==
    IF Truthy(cfg.access_token)
    THEN [Authorization |-> "Bearer " \o cfg.access_token]
    ELSE [k \in {} |-> ""]

\* start_forward: one _forward_ws task per configured URL that URL()
\* accepts; a bad URL is logged and skipped.
start_forward(cfg, f) ==
    [u \in DOMAIN f |-> IF URL_ok(cfg.ws_urls[u])
                        THEN [f[u] EXCEPT !.pc = "connecting"]
                        ELSE [f[u] EXCEPT !.pc = "badurl"]]

\* The startup hook, registered only when ws_urls is not empty.
StartForward ==
    /\ config.ws_urls # <<>>
    /\ \A u \in DOMAIN fwd : fwd[u].pc = "init"
    /\ fwd' = start_forward(config, fwd)
    /\ UNCHANGED <<config, log, bots, ws, httpResp, ntasks, nresults>>

\* self.websocket(request) returned a socket: the receive loop starts.
connect_ok(f) ==
    [f EXCEPT !.pc = "receiving", !.attempts = @ + 1]

\* A failed attempt that retries at once, without sleeping.
connect_failed_nosleep(f) ==
    [f EXCEPT !.pc = "connecting", !.attempts = @ + 1, !.fails = @ + 1]

\* self.websocket(request) raised: log, sleep RECONNECT_INTERVAL, continue.
connect_failed(f) ==
    [f EXCEPT !.pc = "sleep_retry", !.attempts = @ + 1, !.fails = @ + 1,
              !.timer = RECONNECT_INTERVAL]

FwdConnect(u, ok) ==
    /\ fwd[u].pc = "connecting"
    /\ ok \/ fwd[u].fails < MaxFails
    /\ fwd' = [fwd EXCEPT ![u] = IF ok THEN connect_ok(@) ELSE connect_failed(@)]
    /\ UNCHANGED <<config, log, bots, ws, httpResp, ntasks, nresults>>

\* The sleep after a failed attempt ends: back to the top of the loop.
FwdRetry(u) ==
    /\ fwd[u].pc = "sleep_retry"
    /\ fwd' = [fwd EXCEPT ![u] = [@ EXCEPT !.pc = "connecting", !.timer = 0,
                                           !.sleeps = @ + 1]]
    /\ UNCHANGED <<config, log, bots, ws, httpResp, ntasks, nresults>>

\* One turn of the inner loop on frame `data`: the loop's next position,
\* the bot it holds, the registry, the tasks created, the payloads stored.
FwdOut(pc, bot, b, d, res) ==
    [pc |-> pc, bot |-> bot, bots |-> b, dispatched |-> d, results |-> res]

\* The gate of an unidentified connection: only a lifecycle connect event
\* identifies the bot.
identifies(event) ==
    event.model = "LifecycleMetaEvent" /\ event.data.sub_type = "connect"

fwd_on_frame(bot, b, u, data) ==
    LET json_data == json_loads(data)
    IN  IF json_data = JsonError THEN FwdOut("closing", bot, b, <<>>, <<>>)
        ELSE LET event == json_to_event(json_data)
                 res == add_result(json_data)
             IN  IF event = NoEvent THEN FwdOut("receiving", bot, b, <<>>, res)
                 ELSE IF bot = NoBot
                 THEN IF ~identifies(event)
                      THEN FwdOut("receiving", bot, b, <<>>, res)
                      ELSE LET new == Bot(ToStr(event.data.self_id), FwdConn(u))
                           IN  FwdOut("receiving", new, bot_connect(b, new),
                                      <<Dispatch(FwdConn(u), new, event)>>, res)
                 ELSE FwdOut("receiving", bot, b,
                             <<Dispatch(FwdConn(u), bot, event)>>, res)

FwdReceive(u, data) ==
    \E o \in {fwd_on_frame(fwd[u].bot, bots, u, data)} :
        /\ fwd[u].pc = "receiving"
        /\ Room(Len(o.dispatched) + Len(o.results))
        /\ CanReceive(FwdConn(u))
        /\ fwd' = [fwd EXCEPT ![u] = [@ EXCEPT !.pc = o.pc, !.bot = o.bot]]
        /\ bots' = o.bots
        /\ ntasks' = ntasks + Len(o.dispatched)
        /\ nresults' = nresults + Len(o.results)
        /\ log' = Received(log, FwdConn(u), data, o.dispatched)
        /\ UNCHANGED <<config, ws, httpResp>>

\* ws.receive() raises.
FwdReceiveError(u) ==
    /\ fwd[u].pc = "receiving"
    /\ CanReceive(FwdConn(u))
    /\ fwd' = [fwd EXCEPT ![u] = [@ EXCEPT !.pc = "closing"]]
    /\ log' = Received(log, FwdConn(u), RecvError, <<>>)
    /\ UNCHANGED <<config, bots, ws, httpResp, ntasks, nresults>>

\* A loop that reconnects at once after a lost connection.
fwd_finally_no_sleep(f) ==
    [f EXCEPT !.pc = "connecting", !.bot = NoBot, !.attempts = 0,
              !.fails = 0, !.sleeps = 0, !.timer = 0]

\* A loop that keeps its bot across connections.
fwd_finally_keeps_bot(f) ==
    [f EXCEPT !.pc = "sleep_reconnect", !.attempts = 0,
              !.fails = 0, !.sleeps = 0, !.timer = RECONNECT_INTERVAL]

\* ws.close() has returned or raised; break; the finally block drops the
\* bot; then the loop sleeps before reconnecting.
fwd_finally(f) ==
    [f EXCEPT !.pc = "sleep_reconnect", !.bot = NoBot, !.attempts = 0,
              !.fails = 0, !.sleeps = 0, !.timer = RECONNECT_INTERVAL]

FwdFinally(u) ==
    /\ fwd[u].pc = "closing"
    /\ fwd' = [fwd EXCEPT ![u] = fwd_finally(@)]
    /\ bots' = IF fwd[u].bot # NoBot THEN bot_disconnect(bots, fwd[u].bot)
               ELSE bots
    /\ UNCHANGED <<config, log, ws, httpResp, ntasks, nresults>>

\* The sleep after a lost connection ends: back to the top of the loop.
FwdReconnect(u) ==
    /\ fwd[u].pc = "sleep_reconnect"
    /\ fwd' = [fwd EXCEPT ![u] = [@ EXCEPT !.pc = "connecting", !.timer = 0]]
    /\ UNCHANGED <<config, log, bots, ws, httpResp, ntasks, nresults>>

\* ------------------------------------------------------------- specification
\* The headers a gateway configured with the same secret and token sends.
GatewaySignature(cfg, content) ==
    IF Truthy(cfg.secret) /\ content # NoneV
    THEN "sha1=" \o hexdigest(cfg.secret, content) ELSE NoneV

GatewayAuthorization(cfg) ==
    IF Truthy(cfg.access_token) THEN "Bearer " \o cfg.access_token ELSE NoneV

GatewayRequest(cfg, self_id, content) ==
    [self_id |-> self_id, x_signature |-> GatewaySignature(cfg, content),
     authorization |-> GatewayAuthorization(cfg), content |-> content]

\* Any request at all reaches the HTTP routes.
HttpAny == \E request \in Requests : HttpRequest(request)

\* A gateway that holds the configured credentials posts a JSON value.
HttpGateway ==
    \E self_id \in {"7", "42"}, content \in Texts \ {TxtBad} :
        HttpRequest(GatewayRequest(config, self_id, content))

\* Any handshake at all reaches the WebSocket route.
WsHandshakeAny(conns) ==
    \E c \in conns, self_id \in HdrIds, authorization \in AuthHdrs :
        WsHandshake(c, self_id, authorization)

\* A handshake of a gateway that holds the configured credentials.
WsHandshakeGateway(conns) ==
    \E c \in conns, self_id \in {"7", "42"} :
        WsHandshake(c, self_id, GatewayAuthorization(config))

\* An accepted passive connection comes and goes without sending a frame.
WsLife(conns) ==
    \/ \E c \in conns : WsAccept(c)
    \/ \E c \in conns : WsAcceptFail(c)
    \/ \E c \in conns : WsReceiveError(c)
    \/ \E c \in conns, raised \in BOOLEAN : WsFinally(c, raised)

\* An accepted passive connection that sends frames until it is lost.
WsRun(conns) ==
    \/ \E c \in conns : WsAccept(c)
    \/ \E c \in conns, data \in Texts : WsReceive(c, data)
    \/ \E c \in conns : WsReceiveError(c)
    \/ \E c \in conns, raised \in BOOLEAN : WsFinally(c, raised)

\* A forward loop whose socket always opens.
FwdLoop ==
    \/ StartForward
    \/ \E u \in DOMAIN fwd : FwdConnect(u, TRUE)
    \/ \E u \in DOMAIN fwd, data \in Texts : FwdReceive(u, data)
    \/ \E u \in DOMAIN fwd : FwdReceiveError(u)
    \/ \E u \in DOMAIN fwd : FwdFinally(u)
    \/ \E u \in DOMAIN fwd : FwdReconnect(u)

\* Opening the socket fails, and the loop retries.
FwdRetrying ==
    \/ \E u \in DOMAIN fwd : FwdConnect(u, FALSE)
    \/ \E u \in DOMAIN fwd : FwdRetry(u)

\* The whole adapter, configured without credentials and with one forward
\* URL: HTTP requests, passive connections and the forward loop interleave.
Init == InitWith({NoneV}, {NoneV}, {<<"ws://h1/">>})

Next == HttpGateway \/ WsHandshakeGateway(WsConns) \/ WsRun(WsConns) \/ FwdLoop

Spec == Init /\ [][Next]_vars

\* The passive endpoints of an adapter with any credentials configured
\* and no forward URL, under arbitrary requests and handshakes.
AuthInit == InitWith(Secrets, AccessTokens, {<<>>})

AuthNext == HttpAny \/ WsHandshakeAny({1}) \/ WsLife({1})

AuthSpec == AuthInit /\ [][AuthNext]_vars

\* The forward loops alone, for every ws_urls list of NumFwd entries.
FwdInit0 == InitWith({NoneV}, {NoneV}, [1..NumFwd -> GoodUrls \cup {BadUrl}])

FwdNext == FwdLoop \/ FwdRetrying

FwdSpec == FwdInit0 /\ [][FwdNext]_vars

\* The passive endpoints alone, without credentials: bodies that only
\* the fallback parser accepts are posted, and the passive connections
\* receive every kind of frame.
HttpFallback ==
    \E self_id \in {"7", "42"}, content \in FallbackTexts :
        HttpRequest(GatewayRequest(config, self_id, content))

WsDecode(conns) ==
    \/ \E c \in conns : WsAccept(c)
    \/ \E c \in conns, data \in Texts \cup CascadeTexts : WsReceive(c, data)
    \/ \E c \in conns : WsReceiveError(c)
    \/ \E c \in conns, raised \in BOOLEAN : WsFinally(c, raised)

DecodeInit == InitWith({NoneV}, {NoneV}, {<<>>})

DecodeNext == HttpFallback \/ WsHandshakeGateway(WsConns) \/ WsDecode(WsConns)

DecodeSpec == DecodeInit /\ [][DecodeNext]_vars

\* A handle_event task that was created and has not completed runs to
\* its end; the event loop may pick any of them.
TaskDone(i) ==
    /\ log.on
    /\ i \in 1..Len(log.tasks)
    /\ \A j \in DOMAIN log.done : log.done[j] # i
    /\ log' = [log EXCEPT !.done = Append(@, i)]
    /\ UNCHANGED <<config, bots, ws, fwd, httpResp, ntasks, nresults>>

\* The frames the observed connections are sent: a malformed one, one
\* that decodes to nothing, an ordinary event and the identifying event.
OrderTexts == {TxtBad, TxtNoSid, TxtMsg, TxtConnect7}

WsObserved(conns) ==
    \/ \E c \in conns : WsAccept(c)
    \/ \E c \in conns, data \in OrderTexts : WsReceive(c, data)
    \/ \E c \in conns : WsReceiveError(c)
    \/ \E c \in conns, raised \in BOOLEAN : WsFinally(c, raised)

FwdObserved ==
    \/ StartForward
    \/ \E u \in DOMAIN fwd : FwdConnect(u, TRUE)
    \/ \E u \in DOMAIN fwd, data \in OrderTexts : FwdReceive(u, data)
    \/ \E u \in DOMAIN fwd : FwdReceiveError(u)
    \/ \E u \in DOMAIN fwd : FwdFinally(u)
    \/ \E u \in DOMAIN fwd : FwdReconnect(u)

\* The receive loops under observation: one passive connection and one
\* forward URL, the tasks they create and the completion of those tasks.
OrderInit ==
    /\ config = [secret |-> NoneV, access_token |-> NoneV,
                 ws_urls |-> <<"ws://h1/">>]
    /\ bots = [k \in {} |-> NoBot]
    /\ ws = [c \in WsConns |-> WsIdle]
    /\ fwd = [u \in DOMAIN config.ws_urls |-> FwdInit]
    /\ httpResp = NoResponse
    /\ ntasks = 0
    /\ nresults = 0
    /\ log = NoLog(TRUE)

OrderNext ==
    \/ WsHandshakeGateway({1})
    \/ WsObserved({1})
    \/ FwdObserved
    \/ \E i \in 1..MaxLog : TaskDone(i)

OrderSpec == OrderInit /\ [][OrderNext]_vars

\* The forward loops under the scheduling of the event loop: a task that
\* can run does run, and a sleep ends.
FwdFair ==
    \A u \in 1..NumFwd :
        /\ WF_vars(FwdFinally(u))
        /\ WF_vars(FwdReconnect(u))
        /\ WF_vars(FwdRetry(u))

FwdLiveSpec == FwdInit0 /\ [][FwdNext]_vars /\ FwdFair

\* -------------------------------------------------------------------- claims
\* The connections that hold a bot while their socket is open.
LiveBots ==
    {ws[c].bot : c \in {d \in WsConns : ws[d].pc = "receiving"}}
    \cup {fwd[u].bot : u \in {v \in DOMAIN fwd : fwd[v].pc = "receiving"
                                                /\ fwd[v].bot # NoBot}}

\* C1: a passive-WebSocket handshake whose X-Self-ID is already registered
\* is closed with code 1008 and never accepted; it changes neither the
\* registry nor any other connection, so the registered session stays
\* bound to the connection that holds it.
C1_DuplicateHandshakeRejected ==
    [][\A c \in WsConns, self_id \in HdrIds, authorization \in AuthHdrs :
          (/\ ws[c].pc = "idle"
           /\ Truthy(self_id)
           /\ self_id \in DOMAIN bots
           /\ WsHandshake(c, self_id, authorization))
          => /\ ws'[c].pc = "closed"
             /\ ws'[c].close.code = 1008
             /\ ~ws'[c].accepted
             /\ bots' = bots
             /\ \A d \in WsConns \ {c} : ws'[d] = ws[d]
             /\ fwd' = fwd]_vars

\* A handshake was closed as a duplicate of the identity that another
\* passive connection holds and has registered.
C1_Witness ==
    \E c, d \in WsConns :
        /\ c # d
        /\ ws[c].close = CloseInfo(1008, "Duplicate X-Self-ID")
        /\ ~ws[c].accepted
        /\ ws[d].pc = "receiving"
        /\ ws[d].self_id = ws[c].self_id
        /\ ws[d].self_id \in DOMAIN bots
        /\ bots[ws[d].self_id] = ws[d].bot

\* C2: at most one active session per identity: in every interleaving, no
\* two connections whose socket is open hold bots of the same identity.
C2_OneSessionPerIdentity ==
    \A b1, b2 \in LiveBots : b1.self_id = b2.self_id => b1 = b2

\* C3: an unidentified forward connection creates no bot and no task
\* until a lifecycle connect event arrives; that event (self_id s) binds
\* a bot for str(s), which is then the bot registered under str(s), and
\* is dispatched; once a bot is bound, every decoded event creates one
\* task.
C3_ForwardGate ==
    [][\A u \in DOMAIN fwd, data \in Texts :
          FwdReceive(u, data) =>
            LET event == json_to_event(json_loads(data))
                identity == IF data = TxtConnect42 THEN "42"
                            ELSE IF data = TxtConnect7 THEN "7" ELSE NoneV
            IN  IF fwd[u].bot = NoBot
                THEN IF identity # NoneV
                     THEN /\ fwd'[u].bot = Bot(identity, FwdConn(u))
                          /\ identity \in DOMAIN bots'
                          /\ bots'[identity] = fwd'[u].bot
                          /\ ntasks' = ntasks + 1
                     ELSE /\ fwd'[u].bot = NoBot
                          /\ bots' = bots
                          /\ ntasks' = ntasks
                ELSE /\ fwd'[u].bot = fwd[u].bot
                     /\ bots' = bots
                     /\ ntasks' = ntasks + (IF event # NoEvent THEN 1 ELSE 0)]_vars

\* C4: after N failed attempts to open the socket the loop has made N
\* attempts and slept N times, RECONNECT_INTERVAL each; the attempt that
\* succeeds is the N+1-th; and the loop is never stuck: when connecting it
\* can attempt, when sleeping it can wake.
C4_RetryLoop ==
    \A u \in DOMAIN fwd :
        /\ fwd[u].pc = "connecting" =>
              /\ fwd[u].attempts = fwd[u].fails
              /\ fwd[u].sleeps = fwd[u].fails
              /\ fwd[u].timer = 0
              /\ ENABLED FwdConnect(u, TRUE)
        /\ fwd[u].pc = "sleep_retry" =>
              /\ fwd[u].attempts = fwd[u].fails
              /\ fwd[u].sleeps = fwd[u].fails - 1
              /\ fwd[u].timer = RECONNECT_INTERVAL
              /\ ENABLED FwdRetry(u)
        /\ fwd[u].pc = "receiving" =>
              /\ fwd[u].attempts = fwd[u].fails + 1
              /\ fwd[u].sleeps = fwd[u].fails
        /\ fwd[u].pc \in {"init", "badurl", "connecting", "sleep_retry",
                          "receiving", "closing", "sleep_reconnect"}

\* The socket opened at the third attempt, after two failures and two
\* sleeps.
C4_Witness ==
    \E u \in DOMAIN fwd :
        /\ fwd[u].pc = "receiving"
        /\ fwd[u].fails >= 2
        /\ fwd[u].attempts = fwd[u].fails + 1
        /\ fwd[u].sleeps = fwd[u].fails

\* What the checks of the HTTP routes answer, as the interface states
\* them: identity, then signature, then token; 204 when none fails.
ExpectedStatus(cfg, request) ==
    IF request.self_id \in {NoneV, ""} THEN 400
    ELSE IF cfg.secret # NoneV /\ request.x_signature = NoneV THEN 401
    ELSE IF cfg.secret # NoneV /\ request.content = NoneV THEN 400
    ELSE IF cfg.secret # NoneV
            /\ request.x_signature # "sha1=" \o hexdigest(cfg.secret, request.content)
         THEN 403
    ELSE IF cfg.access_token # NoneV
            /\ request.authorization # "Bearer " \o cfg.access_token
         THEN 403
    ELSE 204

\* C5: the HTTP handler answers with the status of the first failing check
\* (identity 400, missing signature 401, missing body 400, wrong signature
\* 403, missing or wrong token 403) and with 204 when no check fails.
C5_AuthGuardResult ==
    [][\A request \in Requests :
          HttpRequest(request) =>
              httpResp'.status = ExpectedStatus(config, request)]_vars

\* C6: an HTTP request answered 400, 401 or 403 and a handshake closed with
\* 1008 change neither the registry nor the number of tasks nor the result
\* store, and the handshake is never accepted. (For HTTP: no step that
\* ends with a rejection on record and changes one of the three is the
\* step of an HTTP request. For WebSocket: the step that takes a handler
\* from its start to a socket closed with 1008.)
C6_RejectionChangesNothing ==
    [][/\ (/\ httpResp'.status \in {400, 401, 403}
           /\ <<bots, ntasks, nresults>>' # <<bots, ntasks, nresults>>)
          => \A request \in Requests : ~HttpRequest(request)
       /\ \A c \in WsConns :
             (ws[c].pc = "idle" /\ ws'[c].close.code = 1008)
             => /\ UNCHANGED <<bots, ntasks, nresults, fwd>>
                /\ ~ws'[c].accepted
                /\ ws'[c].pc = "closed"]_vars

\* A request was rejected for its token and a handshake was closed with
\* 1008 while a bot was registered.
C6_Witness ==
    /\ httpResp = Response(403, "Authorization Header is invalid")
    /\ ws[1].close.code = 1008
    /\ ~ws[1].accepted
    /\ DOMAIN bots # {}

\* The payloads that decode to an event.
EventTexts == {content \in Texts : json_to_event(json_loads(content)) # NoEvent}

\* C7: an authenticated HTTP request whose body decodes to an event uses
\* the bot registered under its identity, whoever registered it, and
\* leaves the registry as it is; when none is registered it registers
\* exactly one new bot under that identity; either way it creates exactly
\* one task and answers 204.
C7_ResolveOrCreate ==
    [][\A self_id \in {"7", "42"}, content \in EventTexts :
          (/\ UNCHANGED <<ws, fwd>>
           /\ HttpRequest(GatewayRequest(config, self_id, content)))
          => /\ httpResp' = Response(204, NoneV)
             /\ ntasks' = ntasks + 1
             /\ IF self_id \in DOMAIN bots
                THEN bots' = bots
                ELSE /\ DOMAIN bots' = DOMAIN bots \cup {self_id}
                     /\ bots'[self_id] = Bot(self_id, HttpConn)
                     /\ \A k \in DOMAIN bots : bots'[k] = bots[k]]_vars

\* Two events posted for an identity that a passive connection had
\* registered: two tasks, and the registered bot is still that
\* connection's.
C7_Witness ==
    /\ httpResp = Response(204, NoneV)
    /\ ntasks = 2
    /\ \E c \in WsConns : /\ ws[c].pc = "receiving"
                          /\ ws[c].self_id \in DOMAIN bots
                          /\ bots[ws[c].self_id] = ws[c].bot
    /\ \A c \in WsConns : ws[c].pc \in {"idle", "receiving"}
    /\ \A u \in DOMAIN fwd : fwd[u].pc = "init"

\* C8: a request that passes every check and carries a body is answered
\* 204, whatever the body holds.
C8_BodyAlways204 ==
    [][\A request \in Requests :
          (/\ HttpRequest(request)
           /\ auth_guard(config, request) = NoResponse
           /\ request.content # NoneV)
          => httpResp' = Response(204, NoneV)]_vars

\* The JSON value a frame or body holds is an object without post_type.
LacksPostType(data) ==
    /\ json_loads(data).kind = "object"
    /\ "post_type" \notin DOMAIN json_loads(data).fields

\* C9: on every transport an object without post_type creates no task
\* and no bot and is handed once, as it is, to the result store; a value
\* that is not an object creates no task and is not stored; a task is
\* created only for an object with post_type.
C9_Classified(data) ==
    /\ LacksPostType(data) =>
          /\ ntasks' = ntasks
          /\ nresults' = nresults + 1
          /\ bots' = bots
          /\ add_result(json_loads(data)) = <<json_loads(data)>>
    /\ json_loads(data).kind \in {"array", "JSONDecodeError"} =>
          /\ ntasks' = ntasks
          /\ nresults' = nresults
          /\ bots' = bots
    /\ ntasks' # ntasks =>
          /\ json_loads(data).kind = "object"
          /\ "post_type" \in DOMAIN json_loads(data).fields
          /\ nresults' = nresults

C9_PayloadClassification ==
    [][/\ \A self_id \in {"7", "42"}, content \in Texts :
             (UNCHANGED <<ws, fwd>>
              /\ HttpRequest(GatewayRequest(config, self_id, content)))
             => C9_Classified(content)
       /\ \A c \in WsConns, data \in Texts :
             (ws[c].pc = "receiving" /\ WsReceive(c, data))
             => C9_Classified(data)
       /\ \A u \in DOMAIN fwd, data \in Texts :
             (fwd[u].pc = "receiving" /\ FwdReceive(u, data))
             => C9_Classified(data)]_vars

\* A payload was stored while a passive connection and the forward
\* connection were receiving, and no task was created.
C9_Witness ==
    /\ nresults >= 1
    /\ ntasks = 0
    /\ \E c \in WsConns : ws[c].pc = "receiving"
    /\ \E u \in DOMAIN fwd : fwd[u].pc = "receiving"

\* C10 as stated: a malformed frame and an undecodable one are dropped
\* and the connection, passive or forward, goes on receiving with its
\* session registered.
C10_BadFrameKeepsConnection ==
    [][/\ \A c \in WsConns, data \in {TxtBad, TxtNoSid} :
             WsReceive(c, data) => (ws'[c] = ws[c] /\ bots' = bots)
       /\ \A u \in DOMAIN fwd, data \in {TxtBad, TxtNoSid} :
             FwdReceive(u, data) => (fwd'[u] = fwd[u] /\ bots' = bots)]_vars

\* C10 as amended: a frame that is well-formed JSON but decodes to no
\* event variant is dropped and the connection goes on receiving with its
\* session registered; a frame that is not well-formed JSON ends the
\* receive loop (the passive handler and the forward loop go on to close
\* the socket), still without creating a task.
C10_UndecodableKeepsMalformedEnds ==
    [][/\ \A c \in WsConns :
             /\ WsReceive(c, TxtNoSid) => UNCHANGED <<ws, bots, ntasks, nresults>>
             /\ WsReceive(c, TxtBad) =>
                   /\ ws'[c] = [ws[c] EXCEPT !.pc = "closing"]
                   /\ UNCHANGED <<bots, ntasks, nresults>>
       /\ \A u \in DOMAIN fwd :
             /\ FwdReceive(u, TxtNoSid) => UNCHANGED <<fwd, bots, ntasks, nresults>>
             /\ FwdReceive(u, TxtBad) =>
                   /\ fwd'[u] = [fwd[u] EXCEPT !.pc = "closing"]
                   /\ UNCHANGED <<bots, ntasks, nresults>>]_vars

\* A malformed frame has sent a passive connection and the forward
\* connection to close their sockets, each with its bot still registered.
C10_Witness ==
    /\ \E c \in WsConns : /\ ws[c].pc = "closing"
                          /\ ws[c].self_id \in DOMAIN bots
    /\ \E u \in DOMAIN fwd : /\ fwd[u].pc = "closing"
                             /\ fwd[u].bot # NoBot
                             /\ fwd[u].bot.self_id \in DOMAIN bots

\* The bot is the one the registry holds under its identity.
Registered(bot) ==
    /\ bot # NoBot
    /\ bot.self_id \in DOMAIN bots
    /\ bots[bot.self_id] = bot

\* A bot that is registered before the step is still registered after it.
StaysRegistered(bot) ==
    Registered(bot) => /\ bot.self_id \in DOMAIN bots'
                       /\ bots'[bot.self_id] = bot

\* C11: a failure on one connection (a passive connection that stops
\* receiving and is torn down, a forward loop whose open or receive fails
\* and that is torn down, a bad URL at startup) leaves every other
\* connection as it is, position, socket and registered session, and the
\* loops of the other URLs are started.
C11_FailureIsolation ==
    [][/\ \A c \in WsConns :
             (/\ ws[c].pc \in {"receiving", "closing"}
              /\ ws'[c].pc \in {"closing", "closed"}
              /\ ws'[c] # ws[c])
             => /\ \A d \in WsConns \ {c} :
                      ws'[d] = ws[d] /\ StaysRegistered(ws[d].bot)
                /\ fwd' = fwd
                /\ \A u \in DOMAIN fwd : StaysRegistered(fwd[u].bot)
       /\ \A u \in DOMAIN fwd :
             (\/ fwd[u].pc = "connecting" /\ fwd'[u].pc = "sleep_retry"
              \/ fwd[u].pc = "receiving" /\ fwd'[u].pc = "closing"
              \/ fwd[u].pc = "closing" /\ fwd'[u].pc = "sleep_reconnect")
             => /\ \A v \in DOMAIN fwd \ {u} :
                      fwd'[v] = fwd[v] /\ StaysRegistered(fwd[v].bot)
                /\ ws' = ws
                /\ \A c \in WsConns : StaysRegistered(ws[c].bot)
       /\ (\E u \in DOMAIN fwd : fwd[u].pc = "init" /\ fwd'[u].pc # "init")
             => \A u \in DOMAIN fwd :
                   URL_ok(config.ws_urls[u]) => fwd'[u].pc = "connecting"]_vars

\* C12: a passive-WebSocket handshake passes exactly when the identity
\* header is present, the identity is not registered, and no access_token
\* is configured or the header is "Bearer <access_token>", whatever the
\* secret is; a handshake that does not pass is closed with 1008 and never
\* accepted; once accept() has returned the bot of the header identity is
\* the one registered under it, in that same step, before any frame is
\* received.
C12_HandshakeAcceptance ==
    [][\A c \in WsConns :
          /\ (ws[c].pc = "idle" /\ ws'[c].pc # "idle")
             => \A self_id \in HdrIds, authorization \in AuthHdrs :
                   WsHandshake(c, self_id, authorization)
                   => /\ (ws'[c].pc = "accepting")
                         <=> (/\ Truthy(self_id)
                              /\ self_id \notin DOMAIN bots
                              /\ \/ config.access_token = NoneV
                                 \/ authorization = "Bearer " \o config.access_token)
                      /\ ws'[c].pc # "accepting"
                         => /\ ws'[c].pc = "closed"
                            /\ ws'[c].close.code = 1008
                            /\ ~ws'[c].accepted
                      /\ bots' = bots
          /\ (ws[c].pc = "accepting" /\ ws'[c].pc = "receiving")
             => /\ ws'[c].accepted
                /\ ws[c].self_id \in DOMAIN bots'
                /\ bots'[ws[c].self_id] = Bot(ws[c].self_id, WsConn(c))
                /\ ws'[c].bot = bots'[ws[c].self_id]
                /\ UNCHANGED <<ntasks, nresults>>
          /\ ws'[c].pc = "receiving" => ws'[c].accepted]_vars

\* C13: an accepted passive connection is torn down exactly once however
\* its receive loop ends: while it receives nothing has been torn down;
\* once its handler has returned, close() was attempted once (whether or
\* not it raised) and bot_disconnect was called once, and right after the
\* teardown the identity is not in the registry.
C13_TeardownOnce ==
    [][\A c \in WsConns :
          /\ (ws'[c].accepted /\ ws'[c].pc \in {"receiving", "closing"})
             => ws'[c].closes = 0 /\ ws'[c].disconnects = 0
          /\ (ws'[c].accepted /\ ws'[c].pc = "closed")
             => ws'[c].closes = 1 /\ ws'[c].disconnects = 1
          /\ ~ws'[c].accepted
             => ws'[c].closes = 0 /\ ws'[c].disconnects = 0
          /\ (ws[c].pc = "closing" /\ ws'[c].pc = "closed")
             => ws[c].self_id \notin DOMAIN bots']_vars

\* Both passive connections were accepted and have been torn down, once
\* each, and no bot is left in the registry.
C13_Witness ==
    /\ \A c \in WsConns : /\ ws[c].accepted
                          /\ ws[c].pc = "closed"
                          /\ ws[c].closes = 1
                          /\ ws[c].disconnects = 1
                          /\ ws[c].self_id \notin DOMAIN bots

\* C14: a forward connection that fails while receiving or decoding,
\* identified or not, goes through close, unregistration of its bot if it
\* has one, one sleep of RECONNECT_INTERVAL, and then a new attempt to
\* connect; while it sleeps or connects it holds no bot; and every failure
\* is eventually followed by a new attempt.
C14_FailureCycle ==
    /\ [](\A u \in DOMAIN fwd :
             fwd[u].pc \in {"connecting", "sleep_retry", "sleep_reconnect"}
             => fwd[u].bot = NoBot)
    /\ [][\A u \in DOMAIN fwd :
             /\ (fwd[u].pc = "receiving" /\ fwd'[u].pc # "receiving")
                => fwd'[u].pc = "closing"
             /\ (fwd[u].pc = "closing" /\ fwd'[u] # fwd[u])
                => /\ fwd'[u].pc = "sleep_reconnect"
                   /\ fwd'[u].timer = RECONNECT_INTERVAL
                   /\ fwd[u].bot # NoBot
                      => fwd[u].bot.self_id \notin DOMAIN bots'
             /\ (fwd[u].pc = "sleep_reconnect" /\ fwd'[u] # fwd[u])
                => fwd'[u].pc = "connecting"]_vars
    /\ \A u \in 1..NumFwd :
          (fwd[u].pc = "closing") ~> (fwd[u].pc = "connecting")

\* The only loop that runs lost its connection after it had been
\* identified and had dispatched: it sleeps before reconnecting, with no
\* bot, and the registry is empty.
C14_Witness ==
    \E u \in DOMAIN fwd :
        /\ fwd[u].pc = "sleep_reconnect"
        /\ fwd[u].bot = NoBot
        /\ fwd[u].timer = RECONNECT_INTERVAL
        /\ ntasks >= 1
        /\ DOMAIN bots = {}
        /\ \A v \in DOMAIN fwd \ {u} : fwd[v].pc = "badurl"

\* The segment a detail adds to the taxonomy key: none when the field is
\* absent or empty.
Segment(v) == IF v = NoneV \/ v = "" THEN "" ELSE "." \o v

\* The cascade as the interface states it: among the candidates of the
\* key, the first that accepts; Event itself when none does; nothing when
\* Event rejects too.
CascadeResult(f) ==
    LET cands == get_event_model(f.post_type,
                                 Segment(Get(f, f.post_type \o "_type")),
                                 Segment(Get(f, "sub_type")))
        hits == {i \in DOMAIN cands : Accepts(cands[i], f)}
    IN  IF hits # {}
        THEN ParsedEvent(cands[CHOOSE i \in hits : \A j \in hits : i <= j], f)
        ELSE IF Accepts("Event", f) THEN ParsedEvent("Event", f)
        ELSE NoEvent

\* The payloads that are objects with post_type.
PostTypeTexts ==
    {data \in Texts \cup CascadeTexts :
        /\ json_loads(data).kind = "object"
        /\ "post_type" \in DOMAIN json_loads(data).fields}

\* What the decoder owes a payload with post_type: the cascade's result,
\* which is an event whenever the object has the fields of Event, and one
\* task exactly when there is an event.
C15_Decoded(data) ==
    LET f == json_loads(data).fields
    IN  /\ json_to_event(json_loads(data)) = CascadeResult(f)
        /\ Accepts("Event", f) => CascadeResult(f) # NoEvent
        /\ ntasks' = ntasks + (IF CascadeResult(f) # NoEvent THEN 1 ELSE 0)

\* C15: for an object with post_type the decoder returns the parse of the
\* first candidate of the taxonomy key that accepts, the parse by Event
\* when every candidate rejects, and None only when Event rejects too.
C15_DecodeCascade ==
    [][/\ \A self_id \in {"7", "42"}, content \in FallbackTexts :
             (UNCHANGED <<ws, fwd>>
              /\ HttpRequest(GatewayRequest(config, self_id, content)))
             => C15_Decoded(content)
       /\ \A c \in WsConns, data \in PostTypeTexts :
             (ws[c].pc = "receiving" /\ WsReceive(c, data))
             => C15_Decoded(data)]_vars

\* A body that only Event itself accepts was posted and dispatched: the
\* one task there is comes from it.
C15_Witness ==
    /\ httpResp = Response(204, NoneV)
    /\ ntasks = 1
    /\ nresults = 0
    /\ DOMAIN bots # {}
    /\ \A c \in WsConns : ws[c].pc = "idle"

\* The tasks of the record that the loop of conn created, in the order
\* of their creation.
TasksBy(conn) == SelectSeq(log.tasks, LAMBDA t : t.by = conn)

RECURSIVE LoopTasks(_, _, _)
\* What a strictly sequential loop owes for what receive() gave it, in
\* that order: one task per frame that decodes to an event, through the
\* bot the loop holds at that frame. A passive loop holds its bot from the
\* start; a forward loop holds none until a lifecycle connect event, and
\* none again once a receive or a frame has failed (the next frames come
\* from the next socket); events it reads while it holds none are due no
\* task.
LoopTasks(conn, bot, got) ==
    IF got = <<>> THEN <<>>
    ELSE IF Head(got) = RecvError \/ json_loads(Head(got)) = JsonError
    THEN LoopTasks(conn, IF conn[1] = "fwd" THEN NoBot ELSE bot, Tail(got))
    ELSE LET event == json_to_event(json_loads(Head(got)))
         IN  IF event = NoEvent THEN LoopTasks(conn, bot, Tail(got))
             ELSE IF bot # NoBot
             THEN <<Dispatch(conn, bot, event)>>
                  \o LoopTasks(conn, bot, Tail(got))
             ELSE IF event.model = "LifecycleMetaEvent"
                     /\ event.data.sub_type = "connect"
             THEN <<Dispatch(conn, Bot(ToStr(event.data.self_id), conn), event)>>
                  \o LoopTasks(conn, Bot(ToStr(event.data.self_id), conn),
                               Tail(got))
             ELSE LoopTasks(conn, NoBot, Tail(got))

\* The tasks that were created and have not completed.
Pending == {i \in 1..Len(log.tasks) : \A j \in DOMAIN log.done : log.done[j] # i}

\* C16: in every interleaving of a passive connection, a forward loop and
\* the completion of tasks, the tasks each connection has created are, in
\* creation order, exactly those due for the frames it has read, in
\* reading order, and this holds between any two reads: the task of frame
\* k exists before frame k+1 is read. A turn of a loop reads one frame on
\* one connection and puts at most one task, its own, behind all tasks
\* created before. A task that completes changes neither what was read nor
\* the order of creation, and any pending task may be the next to
\* complete.
C16_SpawnOrder ==
    /\ [](/\ \A c \in WsConns :
                TasksBy(WsConn(c))
                = LoopTasks(WsConn(c), Bot(ws[c].self_id, WsConn(c)),
                            log.rx[WsConn(c)])
          /\ \A u \in DOMAIN fwd :
                TasksBy(FwdConn(u))
                = LoopTasks(FwdConn(u), NoBot, log.rx[FwdConn(u)])
          /\ Len(log.tasks) = ntasks
          /\ \A i \in Pending : ENABLED TaskDone(i))
    /\ [][/\ \A conn \in LoopConns :
                log.rx'[conn] # log.rx[conn]
                => /\ Len(log.rx'[conn]) = Len(log.rx[conn]) + 1
                   /\ SubSeq(log.rx'[conn], 1, Len(log.rx[conn])) = log.rx[conn]
                   /\ \A other \in LoopConns \ {conn} :
                         log.rx'[other] = log.rx[other]
                   /\ Len(log.tasks') <= Len(log.tasks) + 1
                   /\ SubSeq(log.tasks', 1, Len(log.tasks)) = log.tasks
                   /\ \A i \in Len(log.tasks) + 1 .. Len(log.tasks') :
                         log.tasks'[i].by = conn
          /\ log.tasks' # log.tasks => log.rx' # log.rx
          /\ log.done' # log.done
                => log.tasks' = log.tasks /\ log.rx' = log.rx]_vars

\* One connection has read two events and created their two tasks, and
\* the task created second has completed first.
C16_Witness ==
    \E conn \in LoopConns :
        /\ Len(TasksBy(conn)) = 2
        /\ TasksBy(conn) = log.tasks
        /\ log.tasks[1].event # log.tasks[2].event
        /\ log.done = <<2, 1>>

\* C17: on every transport, the bot an event is dispatched through is the
\* one the registry holds under that bot's identity at that moment.
C17_DispatchThroughRegistered ==
    [][/\ \A self_id \in {"7", "42"}, content \in EventTexts :
             (UNCHANGED <<ws, fwd>>
              /\ HttpRequest(GatewayRequest(config, self_id, content)))
             => \A i \in DOMAIN http_process(bots, self_id, content).dispatched :
                   LET bot == http_process(bots, self_id, content).dispatched[i].bot
                   IN  bot.self_id \in DOMAIN bots' /\ bots'[bot.self_id] = bot
       /\ \A c \in WsConns, data \in EventTexts :
             (ws[c].pc = "receiving" /\ WsReceive(c, data))
             => Registered(ws[c].bot)
       /\ \A u \in DOMAIN fwd, data \in EventTexts :
             (fwd[u].pc = "receiving" /\ fwd'[u].bot # NoBot
              /\ FwdReceive(u, data))
             => /\ fwd'[u].bot.self_id \in DOMAIN bots'
                /\ bots'[fwd'[u].bot.self_id] = fwd'[u].bot]_vars

\* C18: a forward loop that lost its connection holds no bot any more and
\* has unregistered the identity it held; the new socket starts
\* unidentified; on an unidentified socket every frame but a lifecycle
\* connect event is dropped without a task or a bot; and a lifecycle
\* connect event binds the loop to a bot of the identity that event
\* carries, whichever identity the loop held on an earlier socket. The
\* registry keeps every entry it had and holds that identity afterwards:
\* the loop's new bot when the identity was free.
C18_GateAfterReconnect ==
    [][\A u \in DOMAIN fwd :
          /\ (fwd[u].pc = "closing" /\ fwd'[u].pc # "closing")
             => /\ fwd'[u].bot = NoBot
                /\ fwd[u].bot # NoBot => fwd[u].bot.self_id \notin DOMAIN bots'
          /\ (fwd[u].pc # "receiving" /\ fwd'[u].pc = "receiving")
             => fwd'[u].bot = NoBot
          /\ (fwd[u].pc = "receiving" /\ fwd[u].bot = NoBot)
             => \A data \in Texts :
                   FwdReceive(u, data)
                   => IF data \in {TxtConnect7, TxtConnect42}
                      THEN LET id == ToStr(json_loads(data).fields.self_id)
                           IN  /\ fwd'[u].bot = Bot(id, FwdConn(u))
                               /\ id \in DOMAIN bots'
                               /\ \A k \in DOMAIN bots : bots'[k] = bots[k]
                               /\ id \notin DOMAIN bots
                                  => bots'[id] = fwd'[u].bot
                      ELSE /\ fwd'[u].bot = NoBot
                           /\ bots' = bots
                           /\ ntasks' = ntasks]_vars

\* The only loop that runs was identified and dispatched, lost its
\* connection, and is connected again, unidentified, with nothing
\* registered.
C18_Witness ==
    \E u \in DOMAIN fwd :
        /\ fwd[u].pc = "receiving"
        /\ fwd[u].bot = NoBot
        /\ ntasks >= 1
        /\ DOMAIN bots = {}
        /\ \A v \in DOMAIN fwd \ {u} : fwd[v].pc = "badurl"

\* C19: the lifecycle connect event that identifies a forward connection
\* creates exactly one task, for that event, through the bot that is
\* registered under the event's identity once bot_connect has run (the
\* loop does not suspend between bot_connect and create_task, so the
\* registry the task is created against is the one after the step), and
\* that bot is this connection's new bot.
C19_IdentifyingEventDispatched ==
    [][\A u \in DOMAIN fwd, data \in {TxtConnect7, TxtConnect42} :
          (fwd[u].pc = "receiving" /\ fwd[u].bot = NoBot /\ FwdReceive(u, data))
          => LET id == ToStr(json_loads(data).fields.self_id)
                 d == fwd_on_frame(fwd[u].bot, bots, u, data).dispatched
             IN  /\ id \in DOMAIN bots'
                 /\ bots'[id] = Bot(id, FwdConn(u))
                 /\ d = <<Dispatch(FwdConn(u), bots'[id],
                                   json_to_event(json_loads(data)))>>
                 /\ ntasks' = ntasks + 1]_vars

\* C20: a step that leaves every connection as it is, as every step of the
\* HTTP handler does, removes or replaces no registry entry, so the bot an
\* HTTP request created stays registered after the 204; and a handshake
\* whose identity is registered with a bot that an HTTP request created is
\* closed with 1008 as a duplicate, not accepted, and changes nothing.
C20_HttpSessionsPersist ==
    [][/\ UNCHANGED <<ws, fwd>>
          => \A k \in DOMAIN bots : k \in DOMAIN bots' /\ bots'[k] = bots[k]
       /\ \A self_id \in {"7", "42"} :
             (/\ UNCHANGED <<ws, fwd>>
              /\ self_id \notin DOMAIN bots
              /\ HttpRequest(GatewayRequest(config, self_id, TxtMsg)))
             => /\ httpResp' = Response(204, NoneV)
                /\ self_id \in DOMAIN bots'
                /\ bots'[self_id] = Bot(self_id, HttpConn)
       /\ \A c \in WsConns :
             (/\ ws[c].pc = "idle"
              /\ ws'[c].pc # "idle"
              /\ ws'[c].self_id \in DOMAIN bots
              /\ bots[ws'[c].self_id].conn = HttpConn)
             => /\ ws'[c].pc = "closed"
                /\ ws'[c].close = CloseInfo(1008, "Duplicate X-Self-ID")
                /\ ~ws'[c].accepted
                /\ bots' = bots]_vars

\* A handshake was closed as a duplicate of an identity that only an HTTP
\* request had registered.
C20_Witness ==
    \E c \in WsConns :
        /\ ws[c].close = CloseInfo(1008, "Duplicate X-Self-ID")
        /\ ws[c].self_id \in DOMAIN bots
        /\ bots[ws[c].self_id] = Bot(ws[c].self_id, HttpConn)
        /\ httpResp = Response(204, NoneV)
        /\ \A d \in WsConns \ {c} : ws[d].pc = "idle"
        /\ \A u \in DOMAIN fwd : fwd[u].pc = "init"

====
